---- MODULE Spec2Model ----
(***************************************************************************)
(* Model of VideoCompressorApp (src/video_compressor.py): the job runner   *)
(* made of start_compression, the worker thread compress_video with its    *)
(* read loop and parse_ffmpeg_output, and cancel_compression, together     *)
(* with the encode subprocesses they launch, signal and drain.             *)
(*                                                                         *)
(* Threads.  start_compression, cancel_compression and the input-file      *)
(* selection are Tk callbacks: they run on the one GUI thread, so they     *)
(* never interleave with each other, and cancel_compression blocks that    *)
(* thread while it waits.  Every compress_video runs on a thread of its    *)
(* own and interleaves with the GUI thread statement by statement.  The    *)
(* subprocesses are the environment: they emit lines and exit.             *)
(*                                                                         *)
(* Numbers.  The progress value is a Python float; it is modelled as the   *)
(* exact fraction num/den, so no rounding is modelled.                     *)
(***************************************************************************)
EXTENDS Integers, Sequences, FiniteSets, TLC

(* ---------------------------------------------------------------- bounds *)
MaxJobs == 3        \* start_compression calls that are accepted
MaxLines == 2       \* lines all subprocesses together write to stderr
MaxSelects == 2     \* input-file selections made by the user
MaxCancels == 2     \* cancel_compression calls

(* ------------------------------------------------------ program constants *)
GracePeriod == 5    \* wait(timeout=5)
SecPerHour == 3600   \* hours * 3600
SecPerMinute == 60   \* minutes * 60
PercentScale == 100  \* (total_seconds / duration) * 100
ProgressMax == 100   \* min(progress, 100)
MinQuality == 0      \* from_=0
MaxQuality == 51     \* to=51
DefaultQuality == 23 \* tk.IntVar(value=23)
MaxrateNum == 3      \* int(bitrate) * 1.5, as the fraction 3/2
MaxrateDen == 2
BufsizeFactor == 2   \* int(bitrate) * 2

Jobs == 1..MaxJobs

\* Values of the attribute self.ffmpeg_process: it does not exist until a
\* worker first assigns it (hasattr is false), it is None, or it is the Popen
\* object of job j, written j.
Absent == -1
None == 0

(* ----------------------------------------------------------- input files *)
NoFile == "none"
\* What ffmpeg.probe finds in each file the user may select: whether the
\* probe succeeds, whether there is a video stream, and its duration (s).
FileInfo ==
    [ short   |-> [probeOk |-> TRUE,  video |-> TRUE,  duration |-> 100],
      long    |-> [probeOk |-> TRUE,  video |-> TRUE,  duration |-> 4000],
      nodur   |-> [probeOk |-> TRUE,  video |-> TRUE,  duration |-> 0],
      audio   |-> [probeOk |-> TRUE,  video |-> FALSE, duration |-> 0],
      broken  |-> [probeOk |-> FALSE, video |-> FALSE, duration |-> 0] ]
Files == DOMAIN FileInfo

(* ------------------------------------------------- subprocess output lines *)
\* A line of the diagnostic stream: which of the markers "frame=", "time="
\* and "bitrate=" it contains, and what follows "time=": a well-formed
\* HH:MM:SS (tsOk) or text that float() rejects, such as N/A.
TimeStamps == { <<0, 0, 10>>, <<0, 1, 40>>, <<1, 0, 0>> }
NoStamp == <<0, 0, 0>>
Lines ==
    { [frame |-> TRUE, time |-> TRUE, bitrate |-> TRUE, tsOk |-> TRUE, ts |-> t] :
          t \in TimeStamps }
    \cup { [frame |-> TRUE,  time |-> TRUE,  bitrate |-> TRUE,  tsOk |-> FALSE, ts |-> NoStamp],
           [frame |-> FALSE, time |-> FALSE, bitrate |-> FALSE, tsOk |-> FALSE, ts |-> NoStamp] }
NoLine == [frame |-> FALSE, time |-> FALSE, bitrate |-> FALSE, tsOk |-> FALSE, ts |-> <<0, 0, 0, 0>>]

(* -------------------------------------------------------------- the state *)
VARIABLES
    input_file,      \* self.input_file (NoFile while nothing is selected)
    is_processing,   \* self.is_processing
    compress_btn,    \* state of self.compress_btn
    cancel_btn,      \* state of self.cancel_btn
    progress,        \* self.progress, the fraction num/den
    status_text,     \* self.status_text
    log_text,        \* contents of self.log_text, one entry per insert
    ffmpeg_process,  \* self.ffmpeg_process: Absent, None or a job's process
    wpc,             \* per job: where its compress_video thread is
    input_path,      \* per job: the local input_path of compress_video
    proc,            \* per job: its subprocess, "none", "running" or "exited"
    returncode,      \* per job: exit code of its subprocess
    stderr,          \* per job: the lines its subprocess has written
    rd,              \* per job: how many of them readline has returned
    termSent,        \* per job: SIGTERM was delivered to its subprocess
    killSent,        \* per job: SIGKILL was delivered to its subprocess
    cpc,             \* where the running cancel_compression call is
    cChecked,        \* the handle that call saw at its check (line 557)
    cWaitOn,         \* the process object that call is waiting on
    waited,          \* seconds that wait has lasted
    cancelError,     \* a cancel_compression call raised
    reported,        \* per job: the progress values its worker has set
    cancelled,       \* per job: a cancel call has reported it Cancelled
    readAfterCancel, \* per job: its worker read a line after that report
    nStarted,        \* accepted start_compression calls
    nSelects,        \* input-file selections
    nCancels,        \* cancel_compression calls
    settings,        \* per job: the option fields its worker read (lines 445-458)
    output_args      \* per job: the local output_args of compress_video

vars == << input_file, is_processing, compress_btn, cancel_btn, progress,
           status_text, log_text, ffmpeg_process, wpc, input_path, proc,
           returncode, stderr, rd, termSent, killSent, cpc, cChecked, cWaitOn,
           waited, cancelError, reported, cancelled, readAfterCancel,
           nStarted, nSelects, nCancels, settings, output_args >>

gui == << is_processing, compress_btn, cancel_btn, progress, status_text, log_text >>
procs == << proc, returncode, stderr, termSent, killSent >>
cancelLocals == << cpc, cChecked, cWaitOn, waited >>
counters == << nStarted, nSelects, nCancels >>
plans == << settings, output_args >>

(* -------------------------------------------------------- exact fractions *)
Frac(n, d) == [num |-> n, den |-> d]
Zero == Frac(0, 1)
Hundred == Frac(ProgressMax, 1)
FracLeq(a, b) == a.num * b.den <= b.num * a.den
\* Python's min(progress, 100): the first argument unless 100 is smaller.
Min100(p) == IF FracLeq(p, Hundred) THEN p ELSE Hundred

(* ---------------------------------------------------------------- the log *)
\* log(message): one timestamped entry appended to the log console.
LogEntry(msg) == [src |-> "log", job |-> 0, msg |-> msg, line |-> NoLine]
\* A raw engine line inserted by parse_ffmpeg_output of job j's worker.
EngineEntry(j, l) == [src |-> "engine", job |-> j, msg |-> "", line |-> l]
log(text, msg) == Append(text, LogEntry(msg))

\* What a worker has read of the option fields, and whether the engine
\* could be run when it was launched.
NoSettings == [read |-> FALSE, bitrate |-> "", crf |-> 0, engineFound |-> FALSE]
\* output_args before line 443, and the flags of it that the model keeps:
\* crf and the three bitrate flags (present only if hasBitrate).  b:v is
\* the text of the field followed by "k"; maxrate the float int(b) * 1.5,
\* kept as an exact fraction; bufsize the integer int(b) * 2.
NoArgs == [built |-> FALSE, crf |-> 0, hasBitrate |-> FALSE, bv |-> "",
           maxrate |-> Zero, bufsize |-> 0]

Init ==
    /\ input_file = NoFile
    /\ is_processing = FALSE
    /\ compress_btn = "normal"
    /\ cancel_btn = "disabled"
    /\ progress = Zero
    /\ status_text = "Ready"
    /\ log_text = << LogEntry("FFmpeg check") >>
    /\ ffmpeg_process = Absent
    /\ wpc = [j \in Jobs |-> "unborn"]
    /\ input_path = [j \in Jobs |-> NoFile]
    /\ proc = [j \in Jobs |-> "none"]
    /\ returncode = [j \in Jobs |-> 0]
    /\ stderr = [j \in Jobs |-> << >>]
    /\ rd = [j \in Jobs |-> 0]
    /\ termSent = [j \in Jobs |-> FALSE]
    /\ killSent = [j \in Jobs |-> FALSE]
    /\ cpc = "idle"
    /\ cChecked = Absent
    /\ cWaitOn = Absent
    /\ waited = 0
    /\ cancelError = FALSE
    /\ reported = [j \in Jobs |-> << >>]
    /\ cancelled = [j \in Jobs |-> FALSE]
    /\ readAfterCancel = [j \in Jobs |-> FALSE]
    /\ nStarted = 0
    /\ nSelects = 0
    /\ nCancels = 0
    /\ settings = [j \in Jobs |-> NoSettings]
    /\ output_args = [j \in Jobs |-> NoArgs]

(* ------------------------------------------------------------ GUI thread *)
\* update_video_preview, run by the write trace of input_file: a probe that
\* raises is logged, everything else only changes the preview label.
update_video_preview(text, f) ==
    IF FileInfo[f].probeOk THEN text ELSE log(text, "Error generating preview")

\* browse_input_file: the user picks file f; input_file.set(f) runs the
\* traces update_output_filename (output_file becomes non-empty) and
\* update_video_preview.
browse_input_file(f) ==
    /\ cpc = "idle"
    /\ nSelects < MaxSelects
    /\ input_file' = f
    /\ log_text' = update_video_preview(log_text, f)
    /\ nSelects' = nSelects + 1
    /\ UNCHANGED << is_processing, compress_btn, cancel_btn, progress, status_text,
                    ffmpeg_process, wpc, input_path, procs, rd, cancelLocals,
                    cancelError, reported, cancelled, readAfterCancel,
                    nStarted, nCancels, plans >>

\* start_compression, lines 374-383: no input file (then no output file
\* either) or a job in progress: the call returns and changes nothing.
start_rejected ==
    /\ cpc = "idle"
    /\ input_file = NoFile \/ is_processing
    /\ UNCHANGED vars

\* start_compression, lines 385-397: the call is accepted and starts the
\* thread of job nStarted + 1.
start_accepted ==
    /\ cpc = "idle"
    /\ input_file # NoFile
    /\ ~is_processing
    /\ nStarted < MaxJobs
    /\ is_processing' = TRUE
    /\ compress_btn' = "disabled"
    /\ cancel_btn' = "normal"
    /\ progress' = Zero
    /\ status_text' = "Compressing..."
    /\ log_text' = << >>
    /\ wpc' = [wpc EXCEPT ![nStarted + 1] = "probe"]
    /\ nStarted' = nStarted + 1
    /\ UNCHANGED << input_file, ffmpeg_process, input_path, procs, rd, cancelLocals,
                    cancelError, reported, cancelled, readAfterCancel,
                    nSelects, nCancels, plans >>

start_compression == start_rejected \/ start_accepted

(* ----------------------------------------------- worker: compress_video *)
\* The except block, lines 515-518.
except_block(text) == log(text, "Error during compression")

\* Lines 401-411: read the input path, probe it, look for a video stream.
worker_probe(j) ==
    /\ wpc[j] = "probe"
    /\ input_path' = [input_path EXCEPT ![j] = input_file]
    /\ IF ~FileInfo[input_file].probeOk
       THEN /\ log_text' = except_block(log_text)
            /\ status_text' = "Error occurred"
            /\ wpc' = [wpc EXCEPT ![j] = "fin_flag"]
       ELSE IF ~FileInfo[input_file].video
       THEN /\ log_text' = log(log_text, "Error: No video stream found in input file")
            /\ wpc' = [wpc EXCEPT ![j] = "fin_flag"]
            /\ UNCHANGED status_text
       ELSE /\ wpc' = [wpc EXCEPT ![j] = "launch"]
            /\ UNCHANGED << log_text, status_text >>
    /\ UNCHANGED << input_file, is_processing, compress_btn, cancel_btn, progress,
                    ffmpeg_process, procs, rd, cancelLocals, cancelError, reported,
                    cancelled, readAfterCancel, counters, plans >>

\* The text of the bitrate field, a free-text entry (line 152): "0", "00",
\* numbers, a negative number, or text int() rejects.
Bitrates == { "0", "00", "1000", "333", "-5", "abc" }
\* The texts int() accepts, and Python's int() of them.
Numerals == { "0", "00", "1000", "333", "-5" }
int(b) ==
    CASE b = "0" -> 0
      [] b = "00" -> 0
      [] b = "1000" -> 1000
      [] b = "333" -> 333
      [] b = "-5" -> 0 - 5
\* Lines 455-458: int(self.bitrate.get()) raises ValueError for other text;
\* for the text "0" the branch is skipped and int() is not called.
bitrate_raises(b) == b # "0" /\ b \notin Numerals
\* The values self.compression_level.get() returns: the ends of the slider
\* (lines 119-120) and the default.
Qualities == { MinQuality, DefaultQuality, MaxQuality }

\* Lines 443-458 for the bitrate text b and the quality q.
build_output_args(b, q) ==
    IF b # "0"
    THEN [built |-> TRUE, crf |-> q, hasBitrate |-> TRUE, bv |-> b,
          maxrate |-> Frac(int(b) * MaxrateNum, MaxrateDen),
          bufsize |-> int(b) * BufsizeFactor]
    ELSE [built |-> TRUE, crf |-> q, hasBitrate |-> FALSE, bv |-> "",
          maxrate |-> Zero, bufsize |-> 0]

\* Lines 413-478: build the arguments and spawn the subprocess.  The bitrate
\* text b, the quality q and whether the engine can be run are read when the
\* step happens.  A ValueError at line 457 leaves before output_args is
\* complete; a missing engine makes run_async raise at line 473.
worker_launch(j) ==
    /\ wpc[j] = "launch"
    /\ \E b \in Bitrates, q \in Qualities, engineFound \in BOOLEAN :
         /\ settings' = [settings EXCEPT ![j] =
                [read |-> TRUE, bitrate |-> b, crf |-> q, engineFound |-> engineFound]]
         /\ output_args' = [output_args EXCEPT ![j] =
                IF bitrate_raises(b) THEN NoArgs ELSE build_output_args(b, q)]
         /\ IF bitrate_raises(b) \/ ~engineFound
            THEN /\ log_text' = except_block(log_text)
                 /\ status_text' = "Error occurred"
                 /\ wpc' = [wpc EXCEPT ![j] = "fin_flag"]
                 /\ UNCHANGED proc
            ELSE /\ proc' = [proc EXCEPT ![j] = "running"]
                 /\ wpc' = [wpc EXCEPT ![j] = "record"]
                 /\ UNCHANGED << log_text, status_text >>
    /\ UNCHANGED << input_file, is_processing, compress_btn, cancel_btn, progress,
                    ffmpeg_process, input_path, returncode, stderr, termSent, killSent,
                    rd, cancelLocals, cancelError, reported, cancelled,
                    readAfterCancel, counters >>

\* Line 480: self.ffmpeg_process = process.
worker_record(j) ==
    /\ wpc[j] = "record"
    /\ ffmpeg_process' = j
    /\ wpc' = [wpc EXCEPT ![j] = "read"]
    /\ UNCHANGED << input_file, gui, input_path, procs, rd, cancelLocals, cancelError,
                    reported, cancelled, readAfterCancel, counters, plans >>

\* parse_ffmpeg_output, line 528: the three markers.
IsProgressLine(l) == l.frame /\ l.time /\ l.bitrate
\* Lines 530-532: HH:MM:SS to seconds.
total_seconds(ts) == ts[1] * SecPerHour + ts[2] * SecPerMinute + ts[3]
\* Lines 531 and 536: float() of a malformed field raises ValueError, and
\* the probe of the file selected now raises for a file it cannot read.
parse_raises(l, f) == IsProgressLine(l) /\ (~l.tsOk \/ ~FileInfo[f].probeOk)
\* Lines 539-541: the progress value is set only for a video stream whose
\* duration is positive; f is the file selected when the line is parsed.
parse_sets_progress(l, f) ==
    /\ IsProgressLine(l) /\ l.tsOk
    /\ FileInfo[f].probeOk /\ FileInfo[f].video /\ FileInfo[f].duration > 0
\* Lines 542-543 without the min(): the ratio is stored as it is.
parse_progress_unclamped(l, f) == Frac(total_seconds(l.ts) * PercentScale, FileInfo[f].duration)
\* Lines 542-543.
parse_progress(l, f) == Min100(Frac(total_seconds(l.ts) * PercentScale, FileInfo[f].duration))
\* Lines 545-547: the insert sits inside the marker test of line 528.
parse_log(text, j, l) == IF IsProgressLine(l) THEN Append(text, EngineEntry(j, l)) ELSE text

\* Lines 483-487 when readline returns a line: parse_ffmpeg_output(line),
\* and the except block if it raises.
worker_read(j) ==
    /\ wpc[j] = "read"
    /\ rd[j] < Len(stderr[j])
    /\ LET l == stderr[j][rd[j] + 1] IN
         /\ rd' = [rd EXCEPT ![j] = rd[j] + 1]
         /\ readAfterCancel' = [readAfterCancel EXCEPT ![j] = @ \/ cancelled[j]]
         /\ IF parse_raises(l, input_file)
            THEN /\ log_text' = except_block(log_text)
                 /\ status_text' = "Error occurred"
                 /\ wpc' = [wpc EXCEPT ![j] = "fin_flag"]
                 /\ UNCHANGED << progress, reported >>
            ELSE /\ IF parse_sets_progress(l, input_file)
                    THEN /\ progress' = parse_progress(l, input_file)
                         /\ reported' = [reported EXCEPT ![j] =
                                            Append(@, parse_progress(l, input_file))]
                    ELSE UNCHANGED << progress, reported >>
                 /\ log_text' = parse_log(log_text, j, l)
                 /\ UNCHANGED << status_text, wpc >>
    /\ UNCHANGED << input_file, is_processing, compress_btn, cancel_btn, ffmpeg_process,
                    input_path, procs, cancelLocals, cancelError, cancelled, counters, plans >>

\* Lines 484-489 when readline returns nothing: the stream is drained and
\* closed, and process.wait() returns the exit code.
worker_eof(j) ==
    /\ wpc[j] = "read"
    /\ rd[j] = Len(stderr[j])
    /\ proc[j] = "exited"
    /\ wpc' = [wpc EXCEPT ![j] = "check"]
    /\ UNCHANGED << input_file, gui, ffmpeg_process, input_path, procs, rd, cancelLocals,
                    cancelError, reported, cancelled, readAfterCancel, counters, plans >>

\* Lines 491-513: the exit code decides what is logged and shown.
worker_check(j) ==
    /\ wpc[j] = "check"
    /\ IF returncode[j] = 0
       THEN /\ log_text' = log(log(log(log(log_text,
                                "Compression completed successfully!"),
                                "Original size"), "Compressed size"), "Reduction")
            /\ status_text' = "Compression completed"
       ELSE /\ log_text' = log(log_text, "Compression failed!")
            /\ status_text' = "Compression failed"
    /\ wpc' = [wpc EXCEPT ![j] = "fin_flag"]
    /\ UNCHANGED << input_file, is_processing, compress_btn, cancel_btn, progress,
                    ffmpeg_process, input_path, procs, rd, cancelLocals, cancelError,
                    reported, cancelled, readAfterCancel, counters, plans >>

\* The finally block, one statement at a time.  Line 521.
worker_fin_flag(j) ==
    /\ wpc[j] = "fin_flag"
    /\ is_processing' = FALSE
    /\ wpc' = [wpc EXCEPT ![j] = "fin_compress_btn"]
    /\ UNCHANGED << input_file, compress_btn, cancel_btn, progress, status_text, log_text,
                    ffmpeg_process, input_path, procs, rd, cancelLocals, cancelError,
                    reported, cancelled, readAfterCancel, counters, plans >>

\* Line 522.
worker_fin_compress_btn(j) ==
    /\ wpc[j] = "fin_compress_btn"
    /\ compress_btn' = "normal"
    /\ wpc' = [wpc EXCEPT ![j] = "fin_cancel_btn"]
    /\ UNCHANGED << input_file, is_processing, cancel_btn, progress, status_text, log_text,
                    ffmpeg_process, input_path, procs, rd, cancelLocals, cancelError,
                    reported, cancelled, readAfterCancel, counters, plans >>

\* Line 523.
worker_fin_cancel_btn(j) ==
    /\ wpc[j] = "fin_cancel_btn"
    /\ cancel_btn' = "disabled"
    /\ wpc' = [wpc EXCEPT ![j] = "fin_handle"]
    /\ UNCHANGED << input_file, is_processing, compress_btn, progress, status_text, log_text,
                    ffmpeg_process, input_path, procs, rd, cancelLocals, cancelError,
                    reported, cancelled, readAfterCancel, counters, plans >>

\* Line 524: self.ffmpeg_process = None, and the thread ends.
worker_fin_handle(j) ==
    /\ wpc[j] = "fin_handle"
    /\ ffmpeg_process' = None
    /\ wpc' = [wpc EXCEPT ![j] = "done"]
    /\ UNCHANGED << input_file, gui, input_path, procs, rd, cancelLocals, cancelError,
                    reported, cancelled, readAfterCancel, counters, plans >>

compress_video(j) ==
    \/ worker_probe(j)
    \/ worker_launch(j)
    \/ worker_record(j)
    \/ worker_read(j)
    \/ worker_eof(j)
    \/ worker_check(j)
    \/ worker_fin_flag(j)
    \/ worker_fin_compress_btn(j)
    \/ worker_fin_cancel_btn(j)
    \/ worker_fin_handle(j)

(* ------------------------------------------------------- the subprocesses *)
RECURSIVE LinesWritten(_)
LinesWritten(n) == IF n = 0 THEN 0 ELSE Len(stderr[n]) + LinesWritten(n - 1)

\* A running subprocess writes line l to its diagnostic stream.
proc_emit(j, l) ==
    /\ proc[j] = "running"
    /\ LinesWritten(MaxJobs) < MaxLines
    /\ stderr' = [stderr EXCEPT ![j] = Append(@, l)]
    /\ UNCHANGED << input_file, gui, ffmpeg_process, wpc, input_path, proc, returncode,
                    termSent, killSent, rd, cancelLocals, cancelError, reported,
                    cancelled, readAfterCancel, counters, plans >>

\* Exit codes: success, failure, and Popen's codes for a process ended by
\* SIGTERM or by SIGKILL.
ExitOk == 0
ExitFail == 1
ExitTerm == -15
ExitKill == -9
\* The codes a subprocess can end with: it may always finish or fail by
\* itself (a SIGTERM handler may do either too); an unhandled signal it was
\* sent gives that signal's code.
ExitCodes(j) ==
    { ExitOk, ExitFail }
    \cup (IF termSent[j] THEN { ExitTerm } ELSE {})
    \cup (IF killSent[j] THEN { ExitKill } ELSE {})

\* A running subprocess ends with code c and closes its stream.
proc_exit(j, c) ==
    /\ proc[j] = "running"
    /\ c \in ExitCodes(j)
    /\ proc' = [proc EXCEPT ![j] = "exited"]
    /\ returncode' = [returncode EXCEPT ![j] = c]
    /\ UNCHANGED << input_file, gui, ffmpeg_process, wpc, input_path, stderr, termSent,
                    killSent, rd, cancelLocals, cancelError, reported, cancelled,
                    readAfterCancel, counters, plans >>

(* ---------------------------------------- GUI thread: cancel_compression *)
\* Popen.terminate() / Popen.kill() on process h: the signal is sent only
\* while the process has not been seen to exit.
send_signal(sent, h) == IF proc[h] = "running" THEN [sent EXCEPT ![h] = TRUE] ELSE sent

\* Line 557: hasattr(self, 'ffmpeg_process') and self.ffmpeg_process.  With
\* no handle the call returns; with one it goes on to line 558.
cancel_check ==
    /\ cpc = "idle"
    /\ nCancels < MaxCancels
    /\ nCancels' = nCancels + 1
    /\ cChecked' = ffmpeg_process
    /\ cpc' = IF ffmpeg_process \in Jobs THEN "terminate" ELSE "idle"
    /\ UNCHANGED << input_file, gui, ffmpeg_process, wpc, input_path, procs, rd, cWaitOn,
                    waited, cancelError, reported, cancelled, readAfterCancel,
                    nStarted, nSelects, plans >>

\* An attribute access on self.ffmpeg_process when it is None: AttributeError
\* leaves cancel_compression at once.
cancel_raise ==
    /\ cancelError' = TRUE
    /\ cpc' = "idle"
    /\ UNCHANGED << input_file, gui, ffmpeg_process, wpc, input_path, procs, rd, cChecked,
                    cWaitOn, waited, reported, cancelled, readAfterCancel, counters, plans >>

\* Line 558: self.ffmpeg_process.terminate().
cancel_terminate ==
    /\ cpc = "terminate"
    /\ IF ffmpeg_process \notin Jobs
       THEN cancel_raise
       ELSE /\ termSent' = send_signal(termSent, ffmpeg_process)
            /\ cpc' = "wait"
            /\ UNCHANGED << input_file, gui, ffmpeg_process, wpc, input_path, proc,
                            returncode, stderr, killSent, rd, cChecked, cWaitOn, waited,
                            cancelError, reported, cancelled, readAfterCancel, counters, plans >>

\* Line 560: self.ffmpeg_process.wait(timeout=5) is entered on whatever the
\* attribute holds now.
cancel_wait ==
    /\ cpc = "wait"
    /\ IF ffmpeg_process \notin Jobs
       THEN cancel_raise
       ELSE /\ cWaitOn' = ffmpeg_process
            /\ waited' = 0
            /\ cpc' = "waiting"
            /\ UNCHANGED << input_file, gui, ffmpeg_process, wpc, input_path, procs, rd,
                            cChecked, cancelError, reported, cancelled, readAfterCancel,
                            counters, plans >>

\* The grace period of line 560 passes with the process still running.
cancel_grace_elapses ==
    /\ cpc = "waiting"
    /\ proc[cWaitOn] = "running"
    /\ waited < GracePeriod
    /\ waited' = GracePeriod
    /\ UNCHANGED << input_file, gui, ffmpeg_process, wpc, input_path, procs, rd, cpc,
                    cChecked, cWaitOn, cancelError, reported, cancelled,
                    readAfterCancel, counters, plans >>

\* Line 560 returns: the process has exited.
cancel_wait_return ==
    /\ cpc = "waiting"
    /\ proc[cWaitOn] = "exited"
    /\ cpc' = "report"
    /\ UNCHANGED << input_file, gui, ffmpeg_process, wpc, input_path, procs, rd, cChecked,
                    cWaitOn, waited, cancelError, reported, cancelled, readAfterCancel,
                    counters, plans >>

\* Line 561: the grace period is over and the process still runs.
cancel_timeout ==
    /\ cpc = "waiting"
    /\ proc[cWaitOn] = "running"
    /\ waited = GracePeriod
    /\ cpc' = "kill"
    /\ UNCHANGED << input_file, gui, ffmpeg_process, wpc, input_path, procs, rd, cChecked,
                    cWaitOn, waited, cancelError, reported, cancelled, readAfterCancel,
                    counters, plans >>

\* Line 562: self.ffmpeg_process.kill().
cancel_kill ==
    /\ cpc = "kill"
    /\ IF ffmpeg_process \notin Jobs
       THEN cancel_raise
       ELSE /\ killSent' = send_signal(killSent, ffmpeg_process)
            /\ cpc' = "report"
            /\ UNCHANGED << input_file, gui, ffmpeg_process, wpc, input_path, proc,
                            returncode, stderr, termSent, rd, cChecked, cWaitOn, waited,
                            cancelError, reported, cancelled, readAfterCancel, counters, plans >>

\* Lines 564-568.  The job reported as cancelled is the one whose handle
\* the call found at line 557.
cancel_report ==
    /\ cpc = "report"
    /\ is_processing' = FALSE
    /\ compress_btn' = "normal"
    /\ cancel_btn' = "disabled"
    /\ status_text' = "Cancelled"
    /\ log_text' = log(log_text, "Compression cancelled by user")
    /\ cancelled' = [cancelled EXCEPT ![cChecked] = TRUE]
    /\ cpc' = "idle"
    /\ UNCHANGED << input_file, progress, ffmpeg_process, wpc, input_path, procs, rd,
                    cChecked, cWaitOn, waited, cancelError, reported, readAfterCancel,
                    counters, plans >>

cancel_compression ==
    \/ cancel_check
    \/ cancel_terminate
    \/ cancel_wait
    \/ cancel_grace_elapses
    \/ cancel_wait_return
    \/ cancel_timeout
    \/ cancel_kill
    \/ cancel_report

(* ----------------------------------------------------- the specifications *)
\* The whole program: every operation, every input.
Next ==
    \/ \E f \in Files : browse_input_file(f)
    \/ start_compression
    \/ \E j \in Jobs : compress_video(j)
    \/ \E j \in Jobs, l \in Lines : proc_emit(j, l)
    \/ \E j \in Jobs, c \in { ExitOk, ExitFail, ExitTerm, ExitKill } : proc_exit(j, c)
    \/ cancel_compression

Spec == Init /\ [][Next]_vars

\* The specifications below are Spec with fewer calls and inputs, so every
\* behaviour of theirs is a behaviour of Spec.

\* start_compression, as long as it is the first job that it starts.
start_first_job == start_compression /\ nStarted' <= 1

\* The option fields left as __init__ sets them (lines 27 and 30).
DefaultSettings ==
    \A j \in Jobs : settings[j].read =>
        settings[j].bitrate = "0" /\ settings[j].crf = DefaultQuality
default_launch(j) == worker_launch(j) /\ DefaultSettings'
default_compress_video(j) == compress_video(j) /\ DefaultSettings'

\* The first job from its start to the end of its worker, with every file
\* and every line, the default options and no cancellation.
NextProgress ==
    \/ \E f \in Files : browse_input_file(f)
    \/ start_first_job
    \/ \E j \in Jobs : default_compress_video(j)
    \/ \E j \in Jobs, l \in Lines : proc_emit(j, l)
    \/ \E j \in Jobs, c \in { ExitOk, ExitFail } : proc_exit(j, c)

SpecProgress == Init /\ [][NextProgress]_vars

\* The files and lines of the runs that are about cancellation and about
\* overlapping jobs: one well-formed file, a progress line and a plain line.
RaceFiles == { "short" }
RaceLines == { l \in Lines : l.ts \in { <<0, 0, 10>>, NoStamp } /\ (l.tsOk \/ ~l.frame) }

\* The first job and the cancel_compression calls made on it.
NextCancel ==
    \/ \E f \in RaceFiles : browse_input_file(f)
    \/ start_first_job
    \/ \E j \in Jobs : default_compress_video(j)
    \/ \E j \in Jobs, l \in RaceLines : proc_emit(j, l)
    \/ \E j \in Jobs, c \in { ExitOk, ExitFail, ExitTerm, ExitKill } : proc_exit(j, c)
    \/ cancel_compression

SpecCancel == Init /\ [][NextCancel]_vars

\* Several jobs, started and cancelled in any order, RaceCalls calls in all;
\* the file is selected once, the subprocesses write nothing and end with
\* success or failure.
RaceCalls == 4
race_browse(f) == browse_input_file(f) /\ input_file = NoFile
race_start == start_compression /\ nStarted' + nCancels <= RaceCalls
race_cancel_check == cancel_check /\ nStarted + nCancels' <= RaceCalls
\* compress_video on a stream that stays empty: readline returns no line.
race_compress_video(j) ==
    \/ worker_probe(j)
    \/ default_launch(j)
    \/ worker_record(j)
    \/ worker_eof(j)
    \/ worker_check(j)
    \/ worker_fin_flag(j)
    \/ worker_fin_compress_btn(j)
    \/ worker_fin_cancel_btn(j)
    \/ worker_fin_handle(j)
NextRace ==
    \/ \E f \in RaceFiles : race_browse(f)
    \/ race_start
    \/ \E j \in Jobs : race_compress_video(j)
    \/ \E j \in Jobs, c \in { ExitOk, ExitFail } : proc_exit(j, c)
    \/ race_cancel_check
    \/ cancel_terminate
    \/ cancel_wait
    \/ cancel_grace_elapses
    \/ cancel_wait_return
    \/ cancel_timeout
    \/ cancel_kill
    \/ cancel_report

SpecRace == Init /\ [][NextRace]_vars

\* SpecRace with the scheduling the program runs under: a thread that can
\* take its next step takes it, a call of cancel_compression that has begun
\* goes on to its end, and a running subprocess eventually exits.
cancel_continues ==
    \/ cancel_terminate
    \/ cancel_wait
    \/ cancel_grace_elapses
    \/ cancel_wait_return
    \/ cancel_timeout
    \/ cancel_kill
    \/ cancel_report
FairRace ==
    /\ SpecRace
    /\ WF_vars(cancel_continues)
    /\ \A j \in Jobs :
         /\ WF_vars(race_compress_video(j))
         /\ WF_vars(\E c \in { ExitOk, ExitFail } : proc_exit(j, c))

\* The first job with every file, every text of the bitrate field and every
\* quality, no cancellation.
NextBuild ==
    \/ \E f \in Files : browse_input_file(f)
    \/ start_first_job
    \/ \E j \in Jobs : compress_video(j)
    \/ \E j \in Jobs, l \in RaceLines : proc_emit(j, l)
    \/ \E j \in Jobs, c \in { ExitOk, ExitFail } : proc_exit(j, c)

SpecBuild == Init /\ [][NextBuild]_vars

(* -------------------------------------------------------------- the claims *)
\* A worker that has been started and has not reached its finally block.
WorkerBusy(j) == wpc[j] \in { "probe", "launch", "record", "read", "check" }

\* C1: at most one job is in flight: never do two jobs both have a worker
\* that has not yet reached its finally block, and never do two encode
\* subprocesses run at once.
C1_AtMostOneInFlight ==
    /\ Cardinality({ j \in Jobs : WorkerBusy(j) }) <= 1
    /\ Cardinality({ j \in Jobs : proc[j] = "running" }) <= 1

\* C2: a job whose running subprocess was sent the termination signal by a
\* cancel call that then reported it ends as Cancelled: once its worker and
\* the call are done the status reads "Cancelled", and the worker has read
\* no line after the report.
C2_CancelledIsFinal ==
    \A j \in Jobs :
        (cancelled[j] /\ termSent[j] /\ wpc[j] = "done" /\ cpc = "idle" /\ nStarted = j)
            => (status_text = "Cancelled" /\ ~readAfterCancel[j])

\* C3: a cancel_compression call never raises, and the process it waits on
\* and signals is the one it found at its check.
C3_CancelTargetsItsJob ==
    /\ ~cancelError
    /\ cpc \in { "waiting", "kill" } => cWaitOn = cChecked

\* C4: a subprocess is force-killed only after it was sent the graceful
\* termination signal, and the kill is reached only with the whole grace
\* period spent waiting on a process that was still running.
C4_TerminateThenKill ==
    /\ \A j \in Jobs : killSent[j] => termSent[j]
    /\ cpc = "kill" => waited = GracePeriod

\* C5: without any cancellation, once the worker is done and the subprocess
\* has ended, exit code 0 shows "Compression completed" and any other exit
\* code shows "Compression failed".
C5_ExitCodeDecides ==
    \A j \in Jobs :
        (wpc[j] = "done" /\ proc[j] = "exited" /\ nCancels = 0 /\ nStarted = j)
            => status_text = (IF returncode[j] = 0 THEN "Compression completed"
                                                   ELSE "Compression failed")

\* The engine lines job j's worker has put into the log, in log order.
Delivered(j) ==
    LET own == SelectSeq(log_text, LAMBDA e : e.src = "engine" /\ e.job = j)
    IN  [i \in 1..Len(own) |-> own[i].line]

\* C6: when the worker has drained the stream, the engine lines in the log
\* are exactly the lines the subprocess wrote, in the order written.
C6_LogIsTheStream ==
    \A j \in Jobs : (wpc[j] = "check" /\ nStarted = j) => Delivered(j) = stderr[j]

\* Seconds of a timestamp HH:MM:SS.
Elapsed(ts) == 3600 * ts[1] + 60 * ts[2] + ts[3]
\* The line the worker of job j reads in this step, if it reads one.
ReadsLine(j) == wpc[j] = "read" /\ rd'[j] = rd[j] + 1
LineRead(j) == stderr[j][rd[j] + 1]
WellFormed(l) == l.frame /\ l.time /\ l.bitrate /\ l.tsOk
DurationKnown(f) == FileInfo[f].probeOk /\ FileInfo[f].video /\ FileInfo[f].duration > 0

\* C7: a well-formed progress line read while the selected file has a known
\* duration d > 0 sets the progress value to min(100, 100 * elapsed / d); a
\* line read while the duration is 0 or unknown leaves it unchanged; and the
\* progress value never exceeds 100.
C7_ProgressIsClampedRatio ==
    /\ [][ \A j \in Jobs : ReadsLine(j) =>
             LET e == Elapsed(LineRead(j).ts)
                 d == FileInfo[input_file].duration
             IN  /\ (WellFormed(LineRead(j)) /\ DurationKnown(input_file)) =>
                       IF e >= d
                       THEN progress'.num = 100 * progress'.den
                       ELSE progress'.num * d = 100 * e * progress'.den
                 /\ ~DurationKnown(input_file) => progress' = progress ]_vars
    /\ [](progress.den > 0 /\ progress.num >= 0 /\ progress.num <= 100 * progress.den)

\* C7 witness: a job on the 100-second file has reported 10 for 00:00:10 and
\* then the clamped 100 for 01:00:00.
C7_Witness ==
    \E j \in Jobs :
        /\ Len(reported[j]) = 2
        /\ reported[j][1].num * 1 = 10 * reported[j][1].den
        /\ stderr[j][2].ts = <<1, 0, 0>>
        /\ progress.num = 100 * progress.den
        /\ input_file = "short"

\* The well-formed progress lines job j's subprocess wrote carry
\* non-decreasing timestamps.
StampsNonDecreasing(j) ==
    \A a, b \in 1..Len(stderr[j]) :
        (a < b /\ WellFormed(stderr[j][a]) /\ WellFormed(stderr[j][b]))
            => Elapsed(stderr[j][a].ts) <= Elapsed(stderr[j][b].ts)

\* C8: within a job whose timestamps are non-decreasing, the progress values
\* reported are non-decreasing.
C8_ProgressMonotone ==
    \A j \in Jobs :
        StampsNonDecreasing(j) =>
            \A a, b \in 1..Len(reported[j]) :
                a < b => reported[j][a].num * reported[j][b].den
                            <= reported[j][b].num * reported[j][a].den

\* A job is Running from the moment its subprocess is spawned and recorded
\* until its outcome is shown: completed, failed, error or cancelled.
Running(j) == wpc[j] \in { "read", "check" } /\ ~cancelled[j]

\* C9: a cancel_compression call made while no job is Running returns at its
\* check: it raises nothing, signals nothing, and leaves the processing flag,
\* the status, the buttons, the progress value and the log as they were.
C9_CancelWhenIdleIsNoOp ==
    [][ (nCancels' # nCancels /\ \A j \in Jobs : ~Running(j)) =>
            /\ cpc' = "idle"
            /\ UNCHANGED << is_processing, status_text, compress_btn, cancel_btn,
                            progress, log_text, termSent, killSent, cancelError >> ]_vars

\* C10: a start_compression call made while a job is Running (its
\* subprocess alive, recorded and not cancelled) starts no job and leaves the
\* progress value, the status, the log, the handle and the processing flag
\* as they were.
C10_StartWhileRunningRejected ==
    [][ ((\E j \in Jobs : Running(j) /\ wpc[j] = "read" /\ proc[j] = "running")
            /\ start_compression) =>
            UNCHANGED << nStarted, wpc, progress, status_text, log_text,
                         ffmpeg_process, is_processing >> ]_vars

\* The three ways a job fails before launch: the probe of its input finds no
\* video stream, the engine cannot be run, or the bitrate text is not a
\* non-negative integer.
NoVideoStream(j) ==
    /\ input_path[j] # NoFile
    /\ FileInfo[input_path[j]].probeOk
    /\ ~FileInfo[input_path[j]].video
EngineNotFound(j) == settings[j].read /\ ~settings[j].engineFound
InvalidOptions(j) ==
    /\ settings[j].read
    /\ settings[j].bitrate \notin Numerals \/ int(settings[j].bitrate) < 0
FailsValidation(j) == NoVideoStream(j) \/ EngineNotFound(j) \/ InvalidOptions(j)

\* C11: a job that fails validation before launch (no video stream, engine
\* not found, bitrate not a non-negative integer) never has a subprocess,
\* and once its worker has ended the status is neither that of a running job
\* nor that of a completed one.
C11_InvalidJobNeverRuns ==
    \A j \in Jobs :
        FailsValidation(j) =>
            /\ proc[j] = "none"
            /\ wpc[j] = "done" =>
                   status_text \notin { "Compressing...", "Compression completed" }

\* C12: in the arguments built for a job, crf is the quality that was read;
\* for target bitrate 0 none of b:v, maxrate, bufsize is present; for a
\* target n > 0 all three are, with b:v = n, maxrate = 1.5 * n and
\* bufsize = 2 * n.
C12_BitrateFlags ==
    \A j \in Jobs :
        output_args[j].built =>
            LET n == int(settings[j].bitrate)
                a == output_args[j]
            IN  /\ a.crf = settings[j].crf
                /\ n = 0 => ~a.hasBitrate
                /\ n > 0 => /\ a.hasBitrate
                            /\ int(a.bv) = n
                            /\ 2 * a.maxrate.num = 3 * n * a.maxrate.den
                            /\ a.bufsize = 2 * n

\* The runner at rest: the flag is false, the stored handle is cleared, the
\* compress button is enabled and the cancel button disabled.
Idle ==
    /\ ~is_processing
    /\ ffmpeg_process = None
    /\ compress_btn = "normal"
    /\ cancel_btn = "disabled"

\* C13: every started job's worker eventually ends with the runner at rest,
\* and from the end of a job's worker until the next job is started the
\* runner stays at rest.
C13_JobReturnsRunnerToIdle ==
    /\ \A j \in Jobs : (wpc[j] # "unborn") ~> (wpc[j] = "done" /\ Idle)
    /\ [](\A j \in Jobs : (j = nStarted /\ wpc[j] = "done") => Idle)
====
